---- MODULE Spec2Model ----
(***************************************************************************)
(* The abstract value domain of the pointer inference analysis            *)
(* (cwe_checker_rs/src/analysis/pointer_inference/data.rs).               *)
(*                                                                         *)
(* Data is Top(bitsize) | Pointer(PointerDomain) | Value(BitvectorDomain). *)
(* A PointerDomain is a BTreeMap from abstract identifiers to offsets.     *)
(* The bit-vector domain and the identifiers live outside data.rs; the     *)
(* Bv* operators below model the bit-vector domain by its contract.        *)
(*                                                                         *)
(* The state holds two abstract values x and y (the operands of the next   *)
(* transfer function or join), the last operation op and its result res.   *)
(***************************************************************************)
EXTENDS Integers, FiniteSets, Sequences, TLC

VARIABLES x, y, op, res

vars == <<x, y, op, res>>

(* Largest bitsize of a value in the model. *)
MaxWidth == 2

Widths == 1..MaxWidth

(* The abstract identifiers, in their total order (the test fixtures). *)
IdSeq == <<"Rax", "Rbx">>

Ids == {IdSeq[i] : i \in 1..Len(IdSeq)}

IdRank(id) == CHOOSE i \in 1..Len(IdSeq) : IdSeq[i] = id

BinOpTypes == {"PLUS", "MINUS", "AND"}

CastTypes == {"UNSIGNED", "SIGNED", "LOW"}

(***************************************************************************)
(* The bit-vector domain: an exact constant of a width, or Top of a width. *)
(***************************************************************************)
BvTop(w) == [tag |-> "Top", size |-> w, val |-> 0]

BvValue(w, v) == [tag |-> "Value", size |-> w, val |-> v]

BitvectorDomains == {BvTop(w) : w \in Widths}
                      \cup UNION {{BvValue(w, v) : v \in 0..(2^w - 1)} : w \in Widths}

BvBitsize(b) == b.size

BvMerge(a, b) == IF a = b THEN a ELSE BvTop(a.size)

RECURSIVE BitAnd(_, _, _)
BitAnd(a, b, n) ==
    IF n = 0 THEN 0
    ELSE (a % 2) * (b % 2) + 2 * BitAnd(a \div 2, b \div 2, n - 1)

BvBinOp(a, type, b) ==
    IF a.tag = "Value" /\ b.tag = "Value"
    THEN CASE type = "PLUS" -> BvValue(a.size, (a.val + b.val) % (2^a.size))
           [] type = "MINUS" -> BvValue(a.size, (a.val - b.val) % (2^a.size))
           [] type = "AND" -> BvValue(a.size, BitAnd(a.val, b.val, a.size))
    ELSE BvTop(a.size)

BvExtract(a, low_bit, high_bit) ==
    IF a.tag = "Value"
    THEN BvValue(high_bit - low_bit + 1,
                 (a.val \div (2^low_bit)) % (2^(high_bit - low_bit + 1)))
    ELSE BvTop(high_bit - low_bit + 1)

BvCast(a, kind, width) ==
    IF a.tag = "Value"
    THEN CASE kind = "UNSIGNED" -> BvValue(width, a.val)
           [] kind = "SIGNED" ->
                BvValue(width, IF a.val >= 2^(a.size - 1)
                               THEN a.val + 2^width - 2^a.size
                               ELSE a.val)
           [] kind = "LOW" -> BvValue(width, a.val % (2^width))
    ELSE BvTop(width)

BvConcat(upper_bits, lower_bits) ==
    IF upper_bits.tag = "Value" /\ lower_bits.tag = "Value"
    THEN BvValue(upper_bits.size + lower_bits.size,
                 upper_bits.val * (2^lower_bits.size) + lower_bits.val)
    ELSE BvTop(upper_bits.size + lower_bits.size)

(***************************************************************************)
(* PointerDomain: a map from identifiers to offsets.                       *)
(***************************************************************************)
PointerNew(target, offset) == (target :> offset)

(* The first key of a non-empty key set in the identifiers' order. *)
FirstKey(keys) == CHOOSE k \in keys : \A j \in keys : IdRank(k) <= IdRank(j)

(* A bitsize that reports the number of targets instead of an offset's width. *)
PointerBitsize_Len(p) == Cardinality(DOMAIN p)

(* values().next().unwrap(): panics on an empty map; 0 stands for the panic. *)
PointerBitsize(p) ==
    IF DOMAIN p = {} THEN 0 ELSE BvBitsize(p[FirstKey(DOMAIN p)])

RECURSIVE MergeLoop(_, _, _)
MergeLoop(merged_map, other, todo) ==
    IF todo = {} THEN merged_map
    ELSE LET location == FirstKey(todo)
             offset == other[location]
             inserted ==
                 IF location \in DOMAIN merged_map
                 THEN [merged_map EXCEPT
                         ![location] = BvMerge(merged_map[location], offset)]
                 ELSE (location :> offset) @@ merged_map
         IN  MergeLoop(inserted, other, todo \ {location})

(* A merge that keeps only the targets both operands have. *)
PointerMerge_Intersection(p, other) ==
    [k \in DOMAIN p \cap DOMAIN other |-> BvMerge(p[k], other[k])]

(* A merge that inserts the other operand's offset over a shared target. *)
PointerMerge_Overwrite(p, other) ==
    [k \in DOMAIN p \cup DOMAIN other |->
        IF k \in DOMAIN other THEN other[k] ELSE p[k]]

(* A merge that widens the offset of a target only the other operand has. *)
PointerMerge_WidenOneSided(p, other) ==
    [k \in DOMAIN p \cup DOMAIN other |->
        IF k \in DOMAIN p
        THEN (IF k \in DOMAIN other THEN BvMerge(p[k], other[k]) ELSE p[k])
        ELSE BvTop(other[k].size)]

PointerMerge(p, other) == MergeLoop(p, other, DOMAIN other)

PointerAddToOffset(p, value) ==
    [k \in DOMAIN p |-> BvBinOp(p[k], "PLUS", value)]

(* A subtraction copied from add_to_offset with the operator left as PLUS. *)
PointerSubFromOffset_Plus(p, value) ==
    [k \in DOMAIN p |-> BvBinOp(p[k], "PLUS", value)]

PointerSubFromOffset(p, value) ==
    [k \in DOMAIN p |-> BvBinOp(p[k], "MINUS", value)]

(***************************************************************************)
(* Data                                                                    *)
(***************************************************************************)
Top(size) == [tag |-> "Top", size |-> size]

Pointer(p) == [tag |-> "Pointer", map |-> p]

Value(b) == [tag |-> "Value", bv |-> b]

DataBitvector(w, v) == Value(BvValue(w, v))

DataBitsize(d) ==
    CASE d.tag = "Top" -> d.size
      [] d.tag = "Pointer" -> PointerBitsize(d.map)
      [] d.tag = "Value" -> BvBitsize(d.bv)

DataNewTop(bitsize) == Top(bitsize)

(* A bin_op that treats MINUS like PLUS: scalar - pointer is a pointer. *)
DataBinOp_MinusCommutes(self, type, rhs) ==
    CASE self.tag = "Value" /\ rhs.tag = "Value" ->
            Value(BvBinOp(self.bv, type, rhs.bv))
      [] self.tag = "Pointer" /\ type = "PLUS" /\ rhs.tag = "Value" ->
            Pointer(PointerAddToOffset(self.map, rhs.bv))
      [] self.tag = "Value" /\ type = "PLUS" /\ rhs.tag = "Pointer" ->
            Pointer(PointerAddToOffset(rhs.map, self.bv))
      [] self.tag = "Pointer" /\ type = "MINUS" /\ rhs.tag = "Value" ->
            Pointer(PointerSubFromOffset(self.map, rhs.bv))
      [] self.tag = "Value" /\ type = "MINUS" /\ rhs.tag = "Pointer" ->
            Pointer(PointerSubFromOffset(rhs.map, self.bv))
      [] OTHER -> DataNewTop(DataBitsize(self))

DataBinOp(self, type, rhs) ==
    CASE self.tag = "Value" /\ rhs.tag = "Value" ->
            Value(BvBinOp(self.bv, type, rhs.bv))
      [] self.tag = "Pointer" /\ type = "PLUS" /\ rhs.tag = "Value" ->
            Pointer(PointerAddToOffset(self.map, rhs.bv))
      [] self.tag = "Value" /\ type = "PLUS" /\ rhs.tag = "Pointer" ->
            Pointer(PointerAddToOffset(rhs.map, self.bv))
      [] self.tag = "Pointer" /\ type = "MINUS" /\ rhs.tag = "Value" ->
            Pointer(PointerSubFromOffset(self.map, rhs.bv))
      [] OTHER -> DataNewTop(DataBitsize(self))

DataExtract(self, low_bit, high_bit) ==
    IF self.tag = "Value"
    THEN Value(BvExtract(self.bv, low_bit, high_bit))
    ELSE DataNewTop(DataBitsize(self))

DataCast(self, kind, width) ==
    IF self.tag = "Value"
    THEN Value(BvCast(self.bv, kind, width))
    ELSE DataNewTop(width)

(* A concat whose fallback keeps the receiver's width. *)
DataConcat_SelfWidth(self, other) ==
    IF self.tag = "Value" /\ other.tag = "Value"
    THEN Value(BvConcat(self.bv, other.bv))
    ELSE DataNewTop(DataBitsize(self))

DataConcat(self, other) ==
    IF self.tag = "Value" /\ other.tag = "Value"
    THEN Value(BvConcat(self.bv, other.bv))
    ELSE DataNewTop(DataBitsize(self) + DataBitsize(other))

(* A merge whose mixed cell keeps the pointer and forgets the scalar. *)
DataMerge_KeepsPointer(self, other) ==
    CASE self.tag = "Top" -> Top(self.size)
      [] self.tag # "Top" /\ other.tag = "Top" -> Top(other.size)
      [] self.tag = "Pointer" /\ other.tag = "Pointer" ->
            Pointer(PointerMerge(self.map, other.map))
      [] self.tag = "Value" /\ other.tag = "Value" ->
            Value(BvMerge(self.bv, other.bv))
      [] self.tag = "Pointer" /\ other.tag = "Value" -> self
      [] OTHER -> other

(* A merge whose scalar cell gives up without comparing the two scalars. *)
DataMerge_ValueAlwaysTop(self, other) ==
    CASE self.tag = "Top" -> Top(self.size)
      [] self.tag # "Top" /\ other.tag = "Top" -> Top(other.size)
      [] self.tag = "Pointer" /\ other.tag = "Pointer" ->
            Pointer(PointerMerge(self.map, other.map))
      [] self.tag = "Value" /\ other.tag = "Value" ->
            Value(BvTop(self.bv.size))
      [] OTHER -> Top(DataBitsize(self))

DataMerge(self, other) ==
    CASE self.tag = "Top" -> Top(self.size)
      [] self.tag # "Top" /\ other.tag = "Top" -> Top(other.size)
      [] self.tag = "Pointer" /\ other.tag = "Pointer" ->
            Pointer(PointerMerge(self.map, other.map))
      [] self.tag = "Value" /\ other.tag = "Value" ->
            Value(BvMerge(self.bv, other.bv))
      [] OTHER -> Top(DataBitsize(self))

(***************************************************************************)
(* The bit-vector domain is defined on operands of one width: a step that  *)
(* would hand it operands of different widths is outside the model.        *)
(***************************************************************************)
MergeDefined(self, other) ==
    /\ (self.tag = "Pointer" /\ other.tag = "Pointer") =>
          \A k \in DOMAIN self.map \cap DOMAIN other.map :
              self.map[k].size = other.map[k].size
    /\ (self.tag = "Value" /\ other.tag = "Value") =>
          self.bv.size = other.bv.size

OffsetDefined(p, value) == \A k \in DOMAIN p : p[k].size = value.size

BinOpDefined(self, type, rhs) ==
    /\ (self.tag = "Value" /\ rhs.tag = "Value") => self.bv.size = rhs.bv.size
    /\ (self.tag = "Pointer" /\ rhs.tag = "Value" /\ type \in {"PLUS", "MINUS"}) =>
          OffsetDefined(self.map, rhs.bv)
    /\ (self.tag = "Value" /\ rhs.tag = "Pointer" /\ type = "PLUS") =>
          OffsetDefined(rhs.map, self.bv)

ExtractDefined(self, low_bit, high_bit) ==
    /\ low_bit <= high_bit
    /\ self.tag = "Value" => high_bit < self.bv.size

CastDefined(self, kind, width) ==
    self.tag = "Value" =>
        IF kind = "LOW" THEN width <= self.bv.size ELSE width >= self.bv.size

ConcatDefined(self, other) == DataBitsize(self) + DataBitsize(other) <= MaxWidth

(***************************************************************************)
(* The values a caller can construct directly.                             *)
(***************************************************************************)
FreshData ==
    {DataNewTop(w) : w \in Widths}
      \cup {Value(b) : b \in BitvectorDomains}
      \cup {Pointer(PointerNew(id, b)) : id \in Ids, b \in BitvectorDomains}

(* Every non-empty map: each is a merge of singletons. *)
PointerDomains ==
    UNION {[S -> BitvectorDomains] : S \in (SUBSET Ids) \ {{}}}

DataSet ==
    {DataNewTop(w) : w \in Widths}
      \cup {Value(b) : b \in BitvectorDomains}
      \cup {Pointer(p) : p \in PointerDomains}

Idle == [name |-> "idle", type |-> "", lo |-> 0, hi |-> 0, swapped |-> FALSE]

Op(name, type, lo, hi, swapped) ==
    [name |-> name, type |-> type, lo |-> lo, hi |-> hi, swapped |-> swapped]

(* The receiver and the argument of the last binary operation. *)
Self == IF op.swapped THEN y ELSE x

Other == IF op.swapped THEN x ELSE y

Init ==
    /\ x \in FreshData
    /\ y \in FreshData
    /\ op = Idle
    /\ res = x

InitAny ==
    /\ x \in DataSet
    /\ y \in DataSet
    /\ op = Idle
    /\ res = x

LoadTop(w) ==
    /\ op.name = "idle"
    /\ y' = DataNewTop(w)
    /\ UNCHANGED <<x, op, res>>

LoadValue(b) ==
    /\ op.name = "idle"
    /\ y' = Value(b)
    /\ UNCHANGED <<x, op, res>>

LoadPointer(target, offset) ==
    /\ op.name = "idle"
    /\ y' = Pointer(PointerNew(target, offset))
    /\ UNCHANGED <<x, op, res>>

Merge(swapped) ==
    LET self == IF swapped THEN y ELSE x
        other == IF swapped THEN x ELSE y
    IN  /\ op.name = "idle"
        /\ MergeDefined(self, other)
        /\ res' = DataMerge(self, other)
        /\ op' = Op("merge", "", 0, 0, swapped)
        /\ UNCHANGED <<x, y>>

BinOp(type, swapped) ==
    LET self == IF swapped THEN y ELSE x
        rhs == IF swapped THEN x ELSE y
    IN  /\ op.name = "idle"
        /\ BinOpDefined(self, type, rhs)
        /\ res' = DataBinOp(self, type, rhs)
        /\ op' = Op("bin_op", type, 0, 0, swapped)
        /\ UNCHANGED <<x, y>>

Extract(low_bit, high_bit) ==
    /\ op.name = "idle"
    /\ ExtractDefined(x, low_bit, high_bit)
    /\ res' = DataExtract(x, low_bit, high_bit)
    /\ op' = Op("extract", "", low_bit, high_bit, FALSE)
    /\ UNCHANGED <<x, y>>

Cast(kind, width) ==
    /\ op.name = "idle"
    /\ CastDefined(x, kind, width)
    /\ res' = DataCast(x, kind, width)
    /\ op' = Op("cast", kind, 0, width, FALSE)
    /\ UNCHANGED <<x, y>>

Concat(swapped) ==
    LET self == IF swapped THEN y ELSE x
        other == IF swapped THEN x ELSE y
    IN  /\ op.name = "idle"
        /\ ConcatDefined(self, other)
        /\ res' = DataConcat(self, other)
        /\ op' = Op("concat", "", 0, 0, swapped)
        /\ UNCHANGED <<x, y>>

AddToOffset ==
    /\ op.name = "idle"
    /\ x.tag = "Pointer" /\ y.tag = "Value"
    /\ OffsetDefined(x.map, y.bv)
    /\ res' = Pointer(PointerAddToOffset(x.map, y.bv))
    /\ op' = Op("add_to_offset", "", 0, 0, FALSE)
    /\ UNCHANGED <<x, y>>

SubFromOffset ==
    /\ op.name = "idle"
    /\ x.tag = "Pointer" /\ y.tag = "Value"
    /\ OffsetDefined(x.map, y.bv)
    /\ res' = Pointer(PointerSubFromOffset(x.map, y.bv))
    /\ op' = Op("sub_from_offset", "", 0, 0, FALSE)
    /\ UNCHANGED <<x, y>>

(* p.add_to_offset(v).sub_from_offset(v): the subtraction applied to the sum. *)
SubAfterAdd ==
    /\ op.name = "add_to_offset"
    /\ res' = Pointer(PointerSubFromOffset(res.map, y.bv))
    /\ op' = Op("add_then_sub", "", 0, 0, FALSE)
    /\ UNCHANGED <<x, y>>

(* The result becomes the value at the program point. *)
Keep ==
    /\ op.name # "idle"
    /\ x' = res
    /\ op' = Idle
    /\ UNCHANGED <<y, res>>

Drop ==
    /\ op.name # "idle"
    /\ op' = Idle
    /\ UNCHANGED <<x, y, res>>

Next ==
    \/ \E w \in Widths : LoadTop(w)
    \/ \E b \in BitvectorDomains : LoadValue(b)
    \/ \E target \in Ids, offset \in BitvectorDomains : LoadPointer(target, offset)
    \/ \E swapped \in BOOLEAN : Merge(swapped)
    \/ \E type \in BinOpTypes, swapped \in BOOLEAN : BinOp(type, swapped)
    \/ \E low_bit \in 0..(MaxWidth - 1), high_bit \in 0..(MaxWidth - 1) :
          Extract(low_bit, high_bit)
    \/ \E kind \in CastTypes, width \in Widths : Cast(kind, width)
    \/ \E swapped \in BOOLEAN : Concat(swapped)
    \/ AddToOffset
    \/ SubFromOffset
    \/ SubAfterAdd
    \/ Keep
    \/ Drop

Spec == Init /\ [][Next]_vars

(* The join applied to every pair of values. *)
NextMerge == \E swapped \in BOOLEAN : Merge(swapped)

SpecMerge == InitAny /\ [][NextMerge]_vars

(***************************************************************************)
(* Properties                                                              *)
(***************************************************************************)
Uniform(p) == \A k \in DOMAIN p : p[k].size = PointerBitsize(p)

AllExact(p) == \A k \in DOMAIN p : p[k].tag = "Value"

(* C1: extract(low_bit, high_bit) of a Top or a Pointer is Top of the      *)
(* extracted width high_bit - low_bit + 1.                                 *)
C1_ExtractTopHasExtractedWidth ==
    (op.name = "extract" /\ x.tag # "Value") =>
        res = Top(op.hi - op.lo + 1)

(* C2: the join of two values of one bitsize n follows the table: Pointer  *)
(* with Pointer is the pointer merge, Value with Value is the bit-vector   *)
(* merge (equal scalars stay, different scalars give Value(Top(n))), and   *)
(* every other cell is Top(n).                                             *)
C2_MergeTable ==
    (op.name = "merge" /\ DataBitsize(Self) = DataBitsize(Other)) =>
        LET n == DataBitsize(Self)
        IN  CASE Self.tag = "Pointer" /\ Other.tag = "Pointer" ->
                    res = Pointer(PointerMerge(Self.map, Other.map))
              [] Self.tag = "Value" /\ Other.tag = "Value" ->
                    res = Value(IF Self.bv = Other.bv THEN Self.bv ELSE BvTop(n))
              [] OTHER -> res = Top(n)

C2_Witness ==
    /\ op.name = "merge"
    /\ Self.tag = "Pointer" /\ Other.tag = "Value"
    /\ Cardinality(DOMAIN Self.map) = 2
    /\ DataBitsize(Self) = DataBitsize(Other)
    /\ res = Top(DataBitsize(Other))

(* C3: bin_op follows the dispatch table: Value op Value is the scalar     *)
(* result, Pointer + Value and Value + Pointer are the same pointer with   *)
(* the scalar added to every offset, Pointer - Value subtracts it, and     *)
(* everything else is Top of the receiver's bitsize.                       *)
C3_BinOpTable ==
    op.name = "bin_op" =>
        CASE Self.tag = "Value" /\ Other.tag = "Value" ->
                res = Value(BvBinOp(Self.bv, op.type, Other.bv))
          [] Self.tag = "Pointer" /\ op.type = "PLUS" /\ Other.tag = "Value" ->
                /\ res = Pointer(PointerAddToOffset(Self.map, Other.bv))
                /\ res = DataBinOp(Other, "PLUS", Self)
          [] Self.tag = "Value" /\ op.type = "PLUS" /\ Other.tag = "Pointer" ->
                /\ res = Pointer(PointerAddToOffset(Other.map, Self.bv))
                /\ res = DataBinOp(Other, "PLUS", Self)
          [] Self.tag = "Pointer" /\ op.type = "MINUS" /\ Other.tag = "Value" ->
                res = Pointer(PointerSubFromOffset(Self.map, Other.bv))
          [] OTHER -> res = Top(DataBitsize(Self))

C3_Witness ==
    /\ op.name = "bin_op" /\ op.type = "MINUS"
    /\ Self.tag = "Value" /\ Other.tag = "Pointer"
    /\ Cardinality(DOMAIN Other.map) = 2
    /\ res = Top(Self.bv.size)

(* C4: no PointerDomain is ever empty.                                     *)
C4_NeverEmpty ==
    \A d \in {x, y, res} : d.tag = "Pointer" => DOMAIN d.map # {}

C4_Witness ==
    /\ op.name = "merge"
    /\ x.tag = "Pointer" /\ Cardinality(DOMAIN x.map) = 1
    /\ y.tag = "Pointer" /\ DOMAIN y.map # DOMAIN x.map
    /\ res.tag = "Pointer" /\ Cardinality(DOMAIN res.map) = 2

(* C5 as stated: in every PointerDomain all offsets have the bitsize that  *)
(* PointerDomain::bitsize returns.                                         *)
C5_AlwaysUniform ==
    \A d \in {x, y, res} : d.tag = "Pointer" => Uniform(d.map)

(* C5 as amended: a PointerDomain built by new is uniform; the merge of    *)
(* two uniform PointerDomains of one bitsize is uniform with that bitsize; *)
(* add_to_offset and sub_from_offset with a scalar of the pointer's        *)
(* bitsize keep it uniform with that bitsize.                              *)
C5_UniformWhenOperandsAgree ==
    /\ y.tag = "Pointer" => Uniform(y.map)
    /\ ( /\ op.name = "merge"
         /\ x.tag = "Pointer" /\ y.tag = "Pointer"
         /\ Uniform(x.map)
         /\ PointerBitsize(x.map) = PointerBitsize(y.map) ) =>
            /\ res.tag = "Pointer"
            /\ Uniform(res.map)
            /\ PointerBitsize(res.map) = PointerBitsize(x.map)
    /\ op.name \in {"add_to_offset", "sub_from_offset"} =>
            /\ Uniform(res.map)
            /\ PointerBitsize(res.map) = y.bv.size

C5_Witness ==
    /\ op.name = "merge"
    /\ x.tag = "Pointer" /\ y.tag = "Pointer"
    /\ Cardinality(DOMAIN x.map) = 2 /\ Uniform(x.map)
    /\ PointerBitsize(x.map) = MaxWidth
    /\ PointerBitsize(y.map) = MaxWidth
    /\ x.map[FirstKey(DOMAIN y.map)] # y.map[FirstKey(DOMAIN y.map)]
    /\ Uniform(res.map)

(* C6: the merge of two PointerDomains has the union of their targets; a   *)
(* target of both maps to the bit-vector merge of the two offsets, a       *)
(* target of one keeps its offset; disjoint operands give |a| + |b|        *)
(* entries.                                                                *)
C6_PointerMergeIsUnion ==
    (op.name = "merge" /\ Self.tag = "Pointer" /\ Other.tag = "Pointer") =>
        LET a == Self.map
            b == Other.map
        IN  /\ res.tag = "Pointer"
            /\ DOMAIN res.map = DOMAIN a \cup DOMAIN b
            /\ \A k \in DOMAIN a \cap DOMAIN b :
                  res.map[k] = IF a[k] = b[k] THEN a[k] ELSE BvTop(a[k].size)
            /\ \A k \in DOMAIN a \ DOMAIN b : res.map[k] = a[k]
            /\ \A k \in DOMAIN b \ DOMAIN a : res.map[k] = b[k]
            /\ DOMAIN a \cap DOMAIN b = {} =>
                  Cardinality(DOMAIN res.map)
                    = Cardinality(DOMAIN a) + Cardinality(DOMAIN b)

C6_Witness ==
    /\ op.name = "merge" /\ Self.tag = "Pointer" /\ Other.tag = "Pointer"
    /\ DOMAIN Self.map = {"Rax"} /\ DOMAIN Other.map = {"Rax", "Rbx"}
    /\ Self.map["Rax"].tag = "Value" /\ Other.map["Rax"].tag = "Value"
    /\ Self.map["Rax"] # Other.map["Rax"]
    /\ Other.map["Rbx"].tag = "Value"
    /\ res.map["Rax"] = BvTop(Self.map["Rax"].size)
    /\ res.map["Rbx"] = Other.map["Rbx"]

(* C7: merge is idempotent: x.merge(x) = x.                                *)
C7_MergeIdempotent ==
    (op.name = "merge" /\ x = y) => res = x

C7_Witness ==
    /\ op.name = "merge" /\ x = y
    /\ x.tag = "Pointer" /\ Cardinality(DOMAIN x.map) = 2
    /\ res = x

C9_AddSubOffsets ==
    /\ op.name \in {"add_to_offset", "sub_from_offset"} =>
          /\ DOMAIN res.map = DOMAIN x.map
          /\ \A k \in DOMAIN x.map :
                LET off == x.map[k]
                    m == 2^off.size
                IN  IF off.tag = "Value" /\ y.bv.tag = "Value"
                    THEN res.map[k] =
                           BvValue(off.size,
                                   IF op.name = "add_to_offset"
                                   THEN (off.val + y.bv.val) % m
                                   ELSE (off.val - y.bv.val + m) % m)
                    ELSE res.map[k] = BvTop(off.size)
    /\ (op.name = "add_then_sub" /\ AllExact(x.map) /\ y.bv.tag = "Value") =>
          res = x

C9_Witness ==
    /\ op.name = "add_then_sub"
    /\ Cardinality(DOMAIN x.map) = 2
    /\ AllExact(x.map) /\ y.bv.tag = "Value"
    /\ \E k \in DOMAIN x.map : x.map[k].val + y.bv.val >= 2^y.bv.size
    /\ \E k \in DOMAIN x.map : x.map[k].val + y.bv.val < 2^y.bv.size
    /\ res = x

(* C10: cast(kind, width) of a Top or a Pointer is Top(width);             *)
(* concat is Top of the sum of the two bitsizes unless both operands are   *)
(* Values, and then it is a Value of that bitsize with the receiver as     *)
(* the more significant part.                                              *)
C10_CastConcatWidths ==
    /\ (op.name = "cast" /\ x.tag # "Value") => res = Top(op.hi)
    /\ op.name = "concat" =>
          LET sum == DataBitsize(Self) + DataBitsize(Other)
          IN  IF Self.tag = "Value" /\ Other.tag = "Value"
              THEN /\ res.tag = "Value"
                   /\ res.bv.size = sum
                   /\ (Self.bv.tag = "Value" /\ Other.bv.tag = "Value") =>
                         res.bv = BvValue(sum,
                                    Self.bv.val * (2^Other.bv.size) + Other.bv.val)
              ELSE res = Top(sum)

C10_Witness ==
    /\ op.name = "concat"
    /\ Self.tag = "Pointer" /\ Other.tag = "Value"
    /\ res = Top(DataBitsize(Self) + Other.bv.size)
    /\ res.size > DataBitsize(Self)

====
